---- MODULE Spec2Model ----
(***************************************************************************)
(* State-machine model of inkwell's Module wrapper (src/src/module.rs).    *)
(*                                                                         *)
(* The wrapper owns one native module handle and forwards every operation  *)
(* to the LLVM C API.  The model keeps the part of the native state that   *)
(* the wrapper's operations read or write (the module's symbol table, its  *)
(* target triple and data layout, whether the backend has destroyed it,    *)
(* the engines created from it, the process-wide backend registry) and     *)
(* records, for the last operation, the sequence of foreign calls it made  *)
(* and the value it returned.                                              *)
(*                                                                         *)
(* Opaque type and value handles that are only passed through to the       *)
(* backend (return_type, type_, the initializer's value) carry no          *)
(* behaviour of the wrapper and are not modelled beyond their presence.    *)
(***************************************************************************)
EXTENDS Integers, Sequences, FiniteSets, TLC

VARIABLES
    decls,          \* the native module's global values, in declaration order
    types,          \* the context's named struct types, in creation order
    target,         \* the module's target triple
    layout,         \* the module's data layout
    module,         \* self.module: "valid", or "dangling" once destroyed
    running,        \* the process has not been ended by a memory fault
    engines,        \* number of execution engines that own the native module
    reg,            \* process-wide registry: how often each registration ran
    jitRequested,   \* number of create_execution_engine calls with jit_mode
    lastCall        \* the last operation: arguments, foreign calls, result

vars ==
    <<decls, types, target, layout, module, running, engines, reg, jitRequested,
      lastCall>>

(***************************************************************************)
(* Bounds and input domains.                                               *)
(***************************************************************************)
MaxDecls == 2       \* declarations (functions and globals) per module
MaxCalls == 2       \* create_execution_engine calls per process
MaxTransfers == 1   \* of these, calls made where the module is populated

NUL == "NUL"        \* the zero byte, as a character of a name

\* Names are sequences of characters.
Names == { <<"f">>, <<"g">> }
NulName == <<"f", NUL, "g">>
NameInputs == Names \cup {NulName}
TypeNames == { <<"T">> }
Triples == { <<"x">>, NulName }
Layouts == { "e-m:e" }
Paths == { <<"o">>, NulName }

\* Status codes a foreign call (a native init step, engine creation, the
\* verifier, the bitcode writer) can hand back.  Their contract is "zero is
\* success, a non-zero code is a failure": success, the code the wrapper
\* tests for, and another non-zero code.
StatusCodes == {0, 1, 2}
\* Diagnostic texts the backend can produce: on a failed engine creation,
\* and on a failed verification.
Messages == { "no target", "bad triple" }
VerifierMessages == { "bad terminator" }

NullPtr == 0        \* a null native pointer
Uninit == -1        \* a bit pattern that is no handle the backend wrote
\* What uninitialized() can hold when it is read without having been written.
UninitValues == {Uninit, NullPtr}

(***************************************************************************)
(* Records of the last call.                                               *)
(***************************************************************************)
Ev(call, ret) == [call |-> call, ret |-> ret]

Res(tag, val, text, flag) ==
    [tag |-> tag, val |-> val, text |-> text, flag |-> flag]

Unit == Res("Unit", 0, "", FALSE)
Panic == Res("Panic", 0, "Conversion to CString failed unexpectedly", FALSE)
\* The process ended by a memory fault inside a foreign call.
Fault == Res("Fault", 0, "SIGSEGV", FALSE)
\* The process ended by the backend's fatal-error handler.
Abort == Res("Abort", 0, "SIGABRT", FALSE)

Call(op, name, flag, trace, result, buf, declared) ==
    [op |-> op, name |-> name, flag |-> flag, trace |-> trace,
     result |-> result, buf |-> buf, declared |-> declared]

Count(trace, call) == Cardinality({i \in DOMAIN trace : trace[i].call = call})

Positions(trace, call) == {i \in DOMAIN trace : trace[i].call = call}

(***************************************************************************)
(* Text conversion at the foreign boundary.                                *)
(***************************************************************************)
\* CString::new(name): fails when the text holds an interior zero byte.
CStringNew(name) ==
    IF \E i \in DOMAIN name : name[i] = NUL
    THEN [ok |-> FALSE, ptr |-> <<>>]
    ELSE [ok |-> TRUE, ptr |-> name]

(***************************************************************************)
(* The native module's symbol table.  A global value (function or global   *)
(* variable) is identified by its position in decls; its symbol is the     *)
(* name it was given, made unique by a numeric suffix when that name was   *)
(* already bound in the module (suffix 0 is the plain name).               *)
(***************************************************************************)
Sym(base, suffix) == [base |-> base, suffix |-> suffix]

Bound(d, cname) == \E i \in DOMAIN d : d[i].sym = Sym(cname, 0)

SameBase(d, cname) == {i \in DOMAIN d : d[i].sym.base = cname}

UniqueSym(d, cname) ==
    IF Bound(d, cname) THEN Sym(cname, Cardinality(SameBase(d, cname)))
    ELSE Sym(cname, 0)

\* LLVMAddFunction(module, name, type): appends a new function and returns it.
LLVMAddFunction(d, cname) ==
    [decls |-> Append(d, [kind |-> "function", sym |-> UniqueSym(d, cname),
                          init |-> FALSE]),
     value |-> Len(d) + 1]

\* LLVMAddGlobal(module, type, name): appends a new global variable.
LLVMAddGlobal(d, cname) ==
    [decls |-> Append(d, [kind |-> "global", sym |-> UniqueSym(d, cname),
                          init |-> FALSE]),
     value |-> Len(d) + 1]

\* LLVMSetInitializer(value, init).
LLVMSetInitializer(d, value) == [d EXCEPT ![value].init = TRUE]

\* LLVMGetNamedFunction(module, name): the function bound to exactly that
\* name, or null (also when the name is bound to a global variable).
LLVMGetNamedFunction(d, cname) ==
    IF \E i \in DOMAIN d : d[i].sym = Sym(cname, 0) /\ d[i].kind = "function"
    THEN CHOOSE i \in DOMAIN d : d[i].sym = Sym(cname, 0) /\ d[i].kind = "function"
    ELSE NullPtr

\* LLVMGetTypeByName(module, name): the named struct type of the context.
LLVMGetTypeByName(t, cname) ==
    IF \E i \in DOMAIN t : t[i] = cname
    THEN CHOOSE i \in DOMAIN t : t[i] = cname
    ELSE NullPtr

is_null(ptr) == ptr = NullPtr

(***************************************************************************)
(* Lookups (pure in the module state).                                     *)
(***************************************************************************)
get_function_value(d, name) ==
    LET value == LLVMGetNamedFunction(d, CStringNew(name).ptr) IN
    IF is_null(value) THEN Res("None", 0, "", FALSE)
    ELSE Res("Some", value, "", FALSE)

get_type_value(t, name) ==
    LET type_ == LLVMGetTypeByName(t, CStringNew(name).ptr) IN
    IF is_null(type_) THEN Res("None", 0, "", FALSE)
    ELSE Res("Some", type_, "", FALSE)

(***************************************************************************)
(* Declaration, lookup and metadata operations.                            *)
(***************************************************************************)
EngineState == <<engines, reg, jitRequested>>

\* A foreign call on self.module after the backend destroyed the native
\* module reads freed memory.  Its behaviour is undefined: the call either
\* ends the process with a memory fault (this step), or it finds the freed
\* memory still holding the module and goes on as on a valid one (the
\* handler's ordinary step, which stays enabled).
UseAfterFree(op, name, flag) ==
    /\ module = "dangling"
    /\ lastCall' = Call(op, name, flag, <<Ev("SIGSEGV", 0)>>, Fault, "null",
                        FALSE)
    /\ running' = FALSE
    /\ UNCHANGED <<decls, types, target, layout, module, EngineState>>

add_function(name) ==
    /\ running
    /\ \/ /\ IF ~CStringNew(name).ok
             THEN /\ lastCall' = Call("add_function", name, FALSE, <<>>, Panic,
                                      "null", FALSE)
                  /\ UNCHANGED decls
             ELSE LET r == LLVMAddFunction(decls, CStringNew(name).ptr) IN
                  /\ Len(decls) < MaxDecls
                  /\ decls' = r.decls
                  /\ lastCall' = Call("add_function", name, FALSE,
                                      <<Ev("LLVMAddFunction", r.value)>>,
                                      Res("FunctionValue", r.value, "", FALSE),
                                      "null", Bound(decls, name))
          /\ UNCHANGED <<types, target, layout, module, running, EngineState>>
       \/ CStringNew(name).ok /\ UseAfterFree("add_function", name, FALSE)

get_function(name) ==
    /\ running
    /\ \/ /\ IF ~CStringNew(name).ok
             THEN lastCall' = Call("get_function", name, FALSE, <<>>, Panic,
                                   "null", FALSE)
             ELSE lastCall' = Call("get_function", name, FALSE,
                                   <<Ev("LLVMGetNamedFunction",
                                        LLVMGetNamedFunction(decls, CStringNew(name).ptr))>>,
                                   get_function_value(decls, name), "null",
                                   Bound(decls, name))
          /\ UNCHANGED <<decls, types, target, layout, module, running, EngineState>>
       \/ CStringNew(name).ok /\ UseAfterFree("get_function", name, FALSE)

get_type(name) ==
    /\ running
    /\ \/ /\ IF ~CStringNew(name).ok
             THEN lastCall' = Call("get_type", name, FALSE, <<>>, Panic,
                                   "null", FALSE)
             ELSE lastCall' = Call("get_type", name, FALSE,
                                   <<Ev("LLVMGetTypeByName",
                                        LLVMGetTypeByName(types, CStringNew(name).ptr))>>,
                                   get_type_value(types, name), "null", FALSE)
          /\ UNCHANGED <<decls, types, target, layout, module, running, EngineState>>
       \/ CStringNew(name).ok /\ UseAfterFree("get_type", name, FALSE)

set_target(target_triple) ==
    /\ running
    /\ \/ /\ IF ~CStringNew(target_triple).ok
             THEN /\ lastCall' = Call("set_target", target_triple, FALSE, <<>>,
                                      Panic, "null", FALSE)
                  /\ UNCHANGED target
             ELSE /\ target' = CStringNew(target_triple).ptr
                  /\ lastCall' = Call("set_target", target_triple, FALSE,
                                      <<Ev("LLVMSetTarget", 0)>>, Unit, "null",
                                      FALSE)
          /\ UNCHANGED <<decls, types, layout, module, running, EngineState>>
       \/ /\ CStringNew(target_triple).ok
          /\ UseAfterFree("set_target", target_triple, FALSE)

add_global(init_value, name) ==
    /\ running
    /\ \/ /\ IF ~CStringNew(name).ok
             THEN /\ lastCall' = Call("add_global", name, init_value, <<>>, Panic,
                                      "null", FALSE)
                  /\ UNCHANGED decls
             ELSE LET r == LLVMAddGlobal(decls, CStringNew(name).ptr) IN
                  /\ Len(decls) < MaxDecls
                  /\ decls' = IF init_value
                              THEN LLVMSetInitializer(r.decls, r.value)
                              ELSE r.decls
                  /\ lastCall' = Call("add_global", name, init_value,
                                      IF init_value
                                      THEN <<Ev("LLVMAddGlobal", r.value),
                                             Ev("LLVMSetInitializer", 0)>>
                                      ELSE <<Ev("LLVMAddGlobal", r.value)>>,
                                      Res("PointerValue", r.value, "", FALSE),
                                      "null", Bound(decls, name))
          /\ UNCHANGED <<types, target, layout, module, running, EngineState>>
       \/ CStringNew(name).ok /\ UseAfterFree("add_global", name, init_value)

set_data_layout(data_layout) ==
    /\ running
    /\ \/ /\ layout' = data_layout
          /\ lastCall' = Call("set_data_layout", <<>>, FALSE,
                              <<Ev("LLVMSetDataLayout", 0)>>, Unit, "null", FALSE)
          /\ UNCHANGED <<decls, types, target, module, running, EngineState>>
       \/ UseAfterFree("set_data_layout", <<>>, FALSE)

create_function_pass_manager ==
    /\ running
    /\ \/ /\ lastCall' = Call("create_function_pass_manager", <<>>, FALSE,
                              <<Ev("LLVMCreateFunctionPassManagerForModule", 0)>>,
                              Res("PassManager", 1, "", FALSE), "null", FALSE)
          /\ UNCHANGED <<decls, types, target, layout, module, running, EngineState>>
       \/ UseAfterFree("create_function_pass_manager", <<>>, FALSE)

(***************************************************************************)
(* Foreign message buffers.  A buffer is "null" (never set), "live" (set   *)
(* by the backend, holding its text) or "freed".                           *)
(***************************************************************************)
NullBuf == [state |-> "null", text |-> ""]
LiveBuf(msg) == [state |-> "live", text |-> msg]

\* CStr::from_ptr(buf).to_string_lossy().into_owned(): the text of a live
\* buffer; reading a freed or unset buffer yields no defined text.
CStrToOwned(buf) == IF buf.state = "live" THEN buf.text ELSE "<invalid read>"

\* LLVMDisposeMessage(buf).
LLVMDisposeMessage(buf) ==
    [state |-> IF buf.state = "live" THEN "freed" ELSE "<invalid free>",
     text |-> ""]

(***************************************************************************)
(* create_execution_engine, step by step.  Each step yields the foreign    *)
(* calls it makes, in order.                                               *)
(***************************************************************************)
StepNames == <<"LLVM_InitializeNativeTarget", "LLVM_InitializeNativeAsmPrinter",
               "LLVM_InitializeNativeAsmParser",
               "LLVM_InitializeNativeDisassembler">>

StepErrors == <<"Unknown error in initializing native target",
                "Unknown error in initializing native asm printer",
                "Unknown error in initializing native asm parser",
                "Unknown error in initializing native disassembler">>

RegSteps == {"LLVMLinkInMCJIT", "LLVMLinkInInterpreter"}
            \cup {StepNames[i] : i \in DOMAIN StepNames}

\* The registration made whatever the mode.
LinkInMCJITAlways(jit_mode) == <<Ev("LLVMLinkInMCJIT", 0)>>

\* if jit_mode { LLVMLinkInMCJIT() }
LinkInMCJIT(jit_mode) ==
    IF jit_mode THEN <<Ev("LLVMLinkInMCJIT", 0)>> ELSE <<>>

\* The wrapper's test of a status code.
failed(code) == code = 1

\* The four native init steps with the status codes c[1..4] the backend
\* hands back: the calls made, and the error returned early (if any).
RECURSIVE NativeInit(_, _)
NativeInit(c, i) ==
    IF i > Len(StepNames) THEN [trace |-> <<>>, err |-> ""]
    ELSE IF failed(c[i])
         THEN [trace |-> <<Ev(StepNames[i], c[i])>>, err |-> StepErrors[i]]
         ELSE LET rest == NativeInit(c, i + 1) IN
              [trace |-> <<Ev(StepNames[i], c[i])>> \o rest.trace,
               err |-> rest.err]

\* The data layout of the host, which the backend gives to a module whose
\* layout is the default (empty) one when it builds an engine for it.
DefaultLayout == ""
HostLayout ==
    "e-m:e-p270:32:32-p271:32:32-p272:64:64-i64:64-f80:128-n8:16:32:64-S128"

\* The backend can select a target machine for the module: its triple is
\* the empty one, which stands for the host.  For a triple it knows no
\* target for, it builds the engine (the interpreter) without one.
SelectsTargetMachine(triple) == triple = <<>>

\* The module holds a global variable without an initializer: an external
\* symbol, which nothing in the process defines.
UnresolvedGlobal(d) == \E i \in DOMAIN d : d[i].kind = "global" /\ ~d[i].init

\* LLVMCreateExecutionEngineForModule(&mut execution_engine, module,
\* &mut err_str).  The backend takes ownership of the native module.  On
\* success the engine handle is written, the message left unset, and a
\* module with the default data layout gets the host's when a target machine
\* was selected for its triple.  Without a target machine the engine is the
\* interpreter, which lays out the module's global variables when it is
\* built and ends the process on one it cannot resolve.  On a non-zero
\* status the message is set, the handle left as it was, and the native
\* module is destroyed with the engine builder that owned it.
LLVMCreateExecutionEngineForModule(execution_engine, d, triple, data_layout, err_str, code, handle, msg) ==
    IF code = 0
    THEN IF ~SelectsTargetMachine(triple) /\ UnresolvedGlobal(d)
         THEN [code |-> code, aborted |-> TRUE,
               execution_engine |-> execution_engine, err_str |-> err_str,
               layout |-> data_layout, destroyed |-> FALSE]
         ELSE [code |-> code, aborted |-> FALSE,
               execution_engine |-> handle, err_str |-> err_str,
               layout |-> IF /\ data_layout = DefaultLayout
                             /\ SelectsTargetMachine(triple)
                          THEN HostLayout
                          ELSE data_layout,
               destroyed |-> FALSE]
    ELSE [code |-> code, aborted |-> FALSE,
          execution_engine |-> execution_engine,
          err_str |-> LiveBuf(msg), layout |-> data_layout,
          destroyed |-> TRUE]

\* The failure path: copy the text, then dispose of the buffer.
CopyThenDispose(err_str) ==
    LET rust_str == CStrToOwned(err_str) IN
    [trace |-> <<Ev("CStr::from_ptr", 0), Ev("LLVMDisposeMessage", 0)>>,
     rust_str |-> rust_str, err_str |-> LLVMDisposeMessage(err_str)]

\* Ok(ExecutionEngine::new(execution_engine, jit_mode))
EngineOf(execution_engine, jit_mode) ==
    Res("Ok", execution_engine, "", jit_mode)

\* The whole handler: its foreign calls, its result, the final state of the
\* message buffer, the module's data layout and the state of self.module
\* afterwards, given the backend's answers (c: the init steps' codes, code:
\* engine creation's, msg its diagnostic, handle the new engine), what the
\* uninitialized handle holds, the module's declarations, triple and data
\* layout, and whether the engine-creation call faults on a dangling
\* self.module.
CreateExecutionEngine(jit_mode, c, code, msg, handle, uninitialized, d, triple, data_layout, self_module, faults) ==
    LET execution_engine == uninitialized
        err_str == NullBuf
        jit == LinkInMCJIT(jit_mode)
        init == NativeInit(c, 1)
    IN  IF init.err # ""
        THEN [trace |-> jit \o init.trace, result |-> Res("Err", 0, init.err, FALSE),
              err_str |-> err_str, created |-> FALSE, layout |-> data_layout,
              module |-> self_module, running |-> TRUE]
        ELSE LET pre == jit \o init.trace \o <<Ev("LLVMLinkInInterpreter", 0)>>
                 r == LLVMCreateExecutionEngineForModule(execution_engine, d,
                                                         triple, data_layout,
                                                         err_str, code, handle,
                                                         msg)
                 call == <<Ev("LLVMCreateExecutionEngineForModule", r.code)>>
             IN  IF self_module = "dangling" /\ faults
                 THEN [trace |-> pre \o <<Ev("SIGSEGV", 0)>>, result |-> Fault,
                       err_str |-> err_str, created |-> FALSE,
                       layout |-> data_layout, module |-> self_module,
                       running |-> FALSE]
                 ELSE IF r.aborted
                 THEN [trace |-> pre \o <<Ev("SIGABRT", 0)>>, result |-> Abort,
                       err_str |-> err_str, created |-> FALSE,
                       layout |-> data_layout, module |-> self_module,
                       running |-> FALSE]
                 ELSE IF failed(r.code)
                 THEN LET e == CopyThenDispose(r.err_str) IN
                      [trace |-> pre \o call \o e.trace,
                       result |-> Res("Err", 0, e.rust_str, FALSE),
                       err_str |-> e.err_str, created |-> FALSE,
                       layout |-> r.layout,
                       module |-> IF r.destroyed THEN "dangling" ELSE self_module,
                       running |-> TRUE]
                 ELSE [trace |-> pre \o call,
                       result |-> EngineOf(r.execution_engine, jit_mode),
                       err_str |-> r.err_str, created |-> r.code = 0,
                       layout |-> r.layout,
                       module |-> IF r.destroyed THEN "dangling" ELSE self_module,
                       running |-> TRUE]

\* The answers the backend can give to one call, with the value the
\* uninitialized handle holds: the init steps' codes c[1..4], engine
\* creation's code and diagnostic, and whether the creation call faults on
\* a dangling self.module.  An answer the handler never uses (a step after
\* the one it returned on, a diagnostic it does not copy, a handle value it
\* does not read, what a faulting call would have returned) is fixed, so
\* that each run is drawn once.
Answer(c, code, msg, uninitialized, faults) ==
    [c |-> c, code |-> code, msg |-> msg, uninitialized |-> uninitialized,
     faults |-> faults]

\* Codes the wrapper's test lets pass, and codes it takes for a failure.
Passing == {k \in StatusCodes : ~failed(k)}
Failing == {k \in StatusCodes : failed(k)}

\* The init steps' codes when step i is the first the wrapper returns on.
ReturnsOn(i) ==
    { [j \in 1..4 |-> IF j < i THEN p[j] ELSE IF j = i THEN k ELSE 0] :
        p \in [1..(i - 1) -> Passing], k \in Failing }

Answers ==
    { Answer(c, 0, "no target", Uninit, FALSE) :
        c \in UNION {ReturnsOn(i) : i \in 1..4} }
    \cup { Answer(c, 0, "no target", Uninit, faults) :
             c \in [1..4 -> Passing], faults \in BOOLEAN }
    \cup { Answer(c, code, msg, Uninit, FALSE) :
             c \in [1..4 -> Passing], code \in Failing, msg \in Messages }
    \cup { Answer(c, code, "no target", uninitialized, FALSE) :
             c \in [1..4 -> Passing], code \in Passing \ {0},
             uninitialized \in UninitValues }

create_execution_engine(jit_mode) ==
    /\ running
    /\ reg["LLVM_InitializeNativeTarget"] < MaxCalls
    /\ \E a \in Answers :
         \E run \in {CreateExecutionEngine(jit_mode, a.c, a.code, a.msg,
                                           engines + 1, a.uninitialized, decls,
                                           target, layout, module, a.faults)} :
             /\ a.faults => module = "dangling"
             /\ lastCall' = Call("create_execution_engine", <<>>, jit_mode,
                                 run.trace, run.result, run.err_str.state, FALSE)
             /\ reg' = [s \in RegSteps |-> reg[s] + Count(run.trace, s)]
             /\ engines' = IF run.created THEN engines + 1 ELSE engines
             /\ layout' = run.layout
             /\ module' = run.module
             /\ running' = run.running
    /\ jitRequested' = IF jit_mode THEN jitRequested + 1 ELSE jitRequested
    /\ UNCHANGED <<decls, types, target>>

(***************************************************************************)
(* verify                                                                  *)
(***************************************************************************)
\* LLVMVerifyModule(module, action, out_message): returns the status; a
\* diagnostic buffer is produced only through a non-null out-parameter.
\* With LLVMPrintMessageAction the backend itself writes the diagnostic to
\* its error stream.
LLVMVerifyModule(action, out_is_null, code, msg) ==
    [code |-> code,
     trace |-> IF code # 0 /\ action = "LLVMPrintMessageAction"
               THEN <<Ev("LLVMVerifyModule", code), Ev("backend stderr", 0)>>
               ELSE <<Ev("LLVMVerifyModule", code)>>,
     buf |-> IF code # 0 /\ ~out_is_null THEN LiveBuf(msg) ELSE NullBuf]

Verify(print, code, msg) ==
    LET err_str_is_null == TRUE          \* let err_str = zeroed()
        action == IF print THEN "LLVMPrintMessageAction"
                  ELSE "LLVMReturnStatusAction"
        r == LLVMVerifyModule(action, err_str_is_null, code, msg)
    IN  IF failed(r.code) /\ ~err_str_is_null
        THEN [trace |-> r.trace
                        \o (IF print THEN <<Ev("println", 0)>> ELSE <<>>)
                        \o <<Ev("LLVMDisposeMessage", 0)>>,
              result |-> Res("bool", 0, "", r.code = 0),
              buf |-> LLVMDisposeMessage(r.buf)]
        ELSE [trace |-> r.trace, result |-> Res("bool", 0, "", r.code = 0),
              buf |-> r.buf]

verify(print) ==
    /\ running
    /\ \/ /\ \E code \in StatusCodes, msg \in VerifierMessages :
               LET run == Verify(print, code, msg) IN
               lastCall' = Call("verify", <<>>, print, run.trace, run.result,
                                run.buf.state, FALSE)
          /\ UNCHANGED <<decls, types, target, layout, module, running, EngineState>>
       \/ UseAfterFree("verify", <<>>, print)

(***************************************************************************)
(* write_bitcode_to_file and dump                                          *)
(***************************************************************************)
\* The handler of write_bitcode_to_file, given the backend's status.
WriteBitcodeToFile(path, code) ==
    [trace |-> <<Ev("LLVMWriteBitcodeToFile", code)>>,
     result |-> Res("bool", 0, "", code = 0)]

write_bitcode_to_file(path) ==
    /\ running
    /\ \/ /\ IF ~CStringNew(path).ok
             THEN lastCall' = Call("write_bitcode_to_file", path, FALSE, <<>>,
                                   Panic, "null", FALSE)
             ELSE \E code \in StatusCodes :
                    LET run == WriteBitcodeToFile(CStringNew(path).ptr, code) IN
                    lastCall' = Call("write_bitcode_to_file", path, FALSE,
                                     run.trace, run.result, "null", FALSE)
          /\ UNCHANGED <<decls, types, target, layout, module, running, EngineState>>
       \/ CStringNew(path).ok /\ UseAfterFree("write_bitcode_to_file", path, FALSE)

dump ==
    /\ running
    /\ \/ /\ lastCall' = Call("dump", <<>>, FALSE, <<Ev("LLVMDumpModule", 0)>>,
                              Unit, "null", FALSE)
          /\ UNCHANGED <<decls, types, target, layout, module, running, EngineState>>
       \/ UseAfterFree("dump", <<>>, FALSE)

(***************************************************************************)
(* Specifications.                                                         *)
(***************************************************************************)
Init ==
    /\ decls = <<>>
    /\ types \in {<<>>} \cup {<<t>> : t \in TypeNames}
    /\ target = <<>>
    /\ layout = DefaultLayout
    /\ module = "valid"
    /\ running = TRUE
    /\ engines = 0
    /\ reg = [s \in RegSteps |-> 0]
    /\ jitRequested = 0
    /\ lastCall = Call("new", <<>>, FALSE, <<>>, Unit, "null", FALSE)

Next ==
    \/ \E name \in NameInputs : add_function(name)
    \/ \E name \in NameInputs \cup TypeNames : get_function(name)
    \/ \E name \in NameInputs \cup TypeNames : get_type(name)
    \/ \E triple \in Triples : set_target(triple)
    \/ \E jit_mode \in BOOLEAN : create_execution_engine(jit_mode)
    \/ create_function_pass_manager
    \/ \E init_value \in BOOLEAN, name \in NameInputs : add_global(init_value, name)
    \/ \E print \in BOOLEAN : verify(print)
    \/ \E data_layout \in Layouts : set_data_layout(data_layout)
    \/ \E path \in Paths : write_bitcode_to_file(path)
    \/ dump

Spec == Init /\ [][Next]_vars

\* Spec is explored through two components, each a restriction of Next to
\* some of its operations, so that every behaviour of a component is a
\* behaviour of Spec.  The engine builder is part of both: it reads the
\* module's declarations, triple and data layout, and a failed creation
\* destroys the native module that every other operation works on.

\* The module component: declarations, lookups, target metadata and output,
\* on a module that is handed to the engine builder at most MaxTransfers
\* times.
NextModule ==
    \/ \E name \in NameInputs : add_function(name)
    \/ \E name \in NameInputs \cup TypeNames : get_function(name)
    \/ \E name \in NameInputs \cup TypeNames : get_type(name)
    \/ \E triple \in Triples : set_target(triple)
    \/ \E init_value \in BOOLEAN, name \in NameInputs : add_global(init_value, name)
    \/ \E jit_mode \in BOOLEAN :
         /\ reg["LLVM_InitializeNativeTarget"] < MaxTransfers
         /\ create_execution_engine(jit_mode)
    \/ \E path \in Paths : write_bitcode_to_file(path)
    \/ dump

SpecModule == Init /\ [][NextModule]_vars

\* The engine component: the engine builder with the operations that hand
\* out or apply owned handles (pass manager, data layout) and the verifier.
NextEngine ==
    \/ \E jit_mode \in BOOLEAN : create_execution_engine(jit_mode)
    \/ create_function_pass_manager
    \/ \E print \in BOOLEAN : verify(print)
    \/ \E data_layout \in Layouts : set_data_layout(data_layout)

\* A module of a context that holds no named type.
InitEngine == Init /\ types = <<>>

SpecEngine == InitEngine /\ [][NextEngine]_vars

(***************************************************************************)
(* Properties of create_execution_engine.                                  *)
(***************************************************************************)
MCJIT == "LLVMLinkInMCJIT"
Interpreter == "LLVMLinkInInterpreter"
CreateEngine == "LLVMCreateExecutionEngineForModule"
Copy == "CStr::from_ptr"
Dispose == "LLVMDisposeMessage"

IsCreate == lastCall.op = "create_execution_engine"

InitSteps == {StepNames[i] : i \in DOMAIN StepNames}

\* The order the protocol prescribes for its foreign calls.
FixedOrder == <<MCJIT>> \o StepNames \o <<Interpreter, CreateEngine>>

Rank(call) == CHOOSE r \in DOMAIN FixedOrder : FixedOrder[r] = call

Protocol(trace) ==
    {i \in DOMAIN trace : \E r \in DOMAIN FixedOrder : FixedOrder[r] = trace[i].call}

\* C1: in every call of create_execution_engine the foreign calls happen in
\* the order JIT registration, target, asm printer, asm parser,
\* disassembler, interpreter registration, engine creation, and a call is
\* made only if every earlier init step of that call returned success
\* (status 0): after an init step that returned a non-zero status no later
\* init step, interpreter registration or engine creation is made.
C1_OrderedAndAbortsOnFailure ==
    IsCreate =>
        LET t == lastCall.trace IN
        /\ \A i, j \in Protocol(t) :
             i < j => Rank(t[i].call) < Rank(t[j].call)
        /\ \A i \in Protocol(t) :
             (t[i].call \in InitSteps /\ t[i].ret # 0)
                => \A j \in Protocol(t) : j <= i
        /\ \A j \in Protocol(t) : \A s \in InitSteps :
             Rank(s) < Rank(t[j].call)
                => \E i \in 1..(j - 1) : t[i] = Ev(s, 0)

\* C2: when engine creation reports failure, the message buffer's text is
\* copied into an owned string before the buffer is disposed of, and it is
\* disposed of exactly once; on success and on every early return (the
\* buffer never set) disposal is not requested.
C2_CopyThenDisposeOnce ==
    IsCreate =>
        LET t == lastCall.trace IN
        IF \E p \in DOMAIN t : t[p].call = CreateEngine /\ t[p].ret # 0
        THEN /\ Count(t, Copy) = 1
             /\ Count(t, Dispose) = 1
             /\ \A c \in Positions(t, Copy), d \in Positions(t, Dispose),
                   p \in Positions(t, CreateEngine) : p < c /\ c < d
             /\ lastCall.buf = "freed"
             /\ lastCall.result.tag = "Err"
             /\ lastCall.result.text \in Messages
        ELSE /\ Count(t, Dispose) = 0
             /\ Count(t, Copy) = 0
             /\ lastCall.buf = "null"

\* C3: after create_execution_engine succeeded on a Module, no mutating
\* operation (add_function, add_global, set_target, set_data_layout,
\* create_function_pass_manager, another create_execution_engine) is
\* performed on the native module through that Module.
MutatingOps == {"add_function", "add_global", "set_target", "set_data_layout",
                "create_function_pass_manager", "create_execution_engine"}

C3_NoMutationAfterTransfer ==
    [][ engines > 0 =>
          ~(lastCall'.op \in MutatingOps /\ lastCall'.result.tag # "Panic") ]_vars

\* C4: across all create_execution_engine calls of a process, each
\* registration step (JIT link-in, the four native inits, interpreter
\* link-in) is executed at most once.
C4_RegistrationAtMostOnce == \A s \in RegSteps : reg[s] <= 1

\* C5: an init step that returns any non-zero status makes
\* create_execution_engine return the failure naming that step, the four
\* failures are pairwise distinct, and success is returned only when every
\* init step returned status 0.
C5_NonZeroStatusIsNamedFailure ==
    /\ \A i, j \in DOMAIN StepErrors : i # j => StepErrors[i] # StepErrors[j]
    /\ IsCreate =>
        LET t == lastCall.trace IN
        /\ \A p \in DOMAIN t : \A i \in DOMAIN StepNames :
             ( /\ t[p].call = StepNames[i]
               /\ t[p].ret # 0
               /\ \A q \in 1..(p - 1) : t[q].ret = 0 )
                => lastCall.result = Res("Err", 0, StepErrors[i], FALSE)
        /\ lastCall.result.tag = "Ok"
             => \A p \in DOMAIN t : t[p].call \in InitSteps => t[p].ret = 0

\* C7: the JIT backend registration is made if and only if jit_mode is
\* true, before any native init step, and over any sequence of calls the
\* registry holds exactly the registrations requested (none when every call
\* passed jit_mode = false).
C7_JitRegisteredIffRequested ==
    /\ reg[MCJIT] = jitRequested
    /\ IsCreate =>
        LET t == lastCall.trace IN
        /\ Count(t, MCJIT) = (IF lastCall.flag THEN 1 ELSE 0)
        /\ \A m \in Positions(t, MCJIT) : \A i \in DOMAIN t :
             t[i].call \in InitSteps => m < i

\* An interpreter-mode call made after a JIT-mode call of the same process.
C7_Witness ==
    /\ IsCreate
    /\ ~lastCall.flag
    /\ jitRequested = 1
    /\ reg["LLVM_InitializeNativeTarget"] = 2
    /\ Count(lastCall.trace, MCJIT) = 0

\* C10: when create_execution_engine(jit_mode) returns success, the engine's
\* JIT flag equals that call's jit_mode whatever earlier calls passed, the
\* engine-creation request reported success, and the engine handle is the one
\* the backend wrote (never the value of the uninitialized local).
C10_EngineFlagAndHandle ==
    (IsCreate /\ lastCall.result.tag = "Ok") =>
        /\ lastCall.result.flag = lastCall.flag
        /\ \E p \in DOMAIN lastCall.trace : lastCall.trace[p] = Ev(CreateEngine, 0)
        /\ lastCall.result.val \notin UninitValues
        /\ lastCall.result.val = engines

(***************************************************************************)
(* Properties of verify.                                                   *)
(***************************************************************************)
\* C6: verify(print) returns true iff the backend's status is success; when
\* verification fails and print is true the wrapper emits the diagnostic
\* once and then frees the diagnostic buffer once; when print is false it
\* emits nothing; no buffer produced by verification stays undisposed.
C6_VerifyEmitsThenFrees ==
    (lastCall.op = "verify" /\ lastCall.result.tag = "bool") =>
        LET t == lastCall.trace
            code == t[1].ret
        IN  /\ lastCall.result.flag = (code = 0)
            /\ (code # 0 /\ lastCall.flag) =>
                 /\ Count(t, "println") = 1
                 /\ Count(t, Dispose) = 1
                 /\ \A e \in Positions(t, "println"), d \in Positions(t, Dispose) :
                      e < d
            /\ ~lastCall.flag => Count(t, "println") = 0
            /\ lastCall.buf # "live"

(***************************************************************************)
(* Properties of declarations and lookups.                                 *)
(***************************************************************************)
Added == lastCall.op = "add_function" /\ lastCall.result.tag = "FunctionValue"

Some(val) == Res("Some", val, "", FALSE)
None == Res("None", 0, "", FALSE)

\* C8, for a name that nothing in the module is bound to before the call:
\* in every reachable module state, add_function(name, ty) with a NUL-free
\* name returns a handle, and get_function(name) immediately after it
\* returns Some of that same handle.
C8_AddThenGetSameHandle ==
    [][ /\ (lastCall'.op = "add_function" /\ CStringNew(lastCall'.name).ok)
             => lastCall'.result.tag = "FunctionValue"
        /\ ( /\ Added
             /\ ~lastCall.declared
             /\ lastCall'.op = "get_function"
             /\ lastCall'.name = lastCall.name )
             => lastCall'.result = Some(lastCall.result.val) ]_vars

IsLookup(call) == call.op \in {"get_function", "get_type"}

\* The name of the last lookup was never declared: no function of the
\* module was declared under it (get_function), no type of the context
\* carries it (get_type).
NeverDeclared ==
    IF lastCall.op = "get_function"
    THEN ~\E i \in DOMAIN decls :
            decls[i].kind = "function" /\ decls[i].sym.base = lastCall.name
    ELSE ~\E i \in DOMAIN types : types[i] = lastCall.name

\* C9, for a NUL-free name: in every reachable module state, get_function
\* and get_type of a name that was never declared return None and never
\* fault, and the lookup leaves the module's declarations (their set and
\* order) and the context's types unchanged.
C9_AbsentNeverFaults ==
    /\ []( ( /\ IsLookup(lastCall)
             /\ NeverDeclared
             /\ CStringNew(lastCall.name).ok )
             => lastCall.result = None )
    /\ [][ IsLookup(lastCall') => (decls' = decls /\ types' = types) ]_vars

====
